---- MODULE Spec2Model ----
(***************************************************************************)
(* The AI trading service's HTTP entry point (services/ai-service/main.py):*)
(* the lifespan startup that builds the two service singletons, the bearer *)
(* dependency, and the four endpoint handlers.  A handler runs atomically  *)
(* up to its awaited service call and again from the call's return to its  *)
(* response: the event loop switches tasks only at an await.               *)
(*                                                                         *)
(* Strings sent by a client (message, user_id, symbol, tokens, ...) are    *)
(* numbered 1..MaxVal / 1..MaxToken.  A Python dict is a record, None is   *)
(* PyNone, an optional query parameter is a sequence of length <= 1, a     *)
(* float is written in hundredths (0.0 is 0, 0.75 is 75).  "Exception" in  *)
(* this module means an instance of Python's Exception class.              *)
(***************************************************************************)
EXTENDS Integers, Sequences, FiniteSets, TLC

\* Bounds of the model.
NumReq == 2
MaxToken == 2
MaxVal == 2

Requests == 1..NumReq
Tokens == 1..MaxToken
Vals == 1..MaxVal

VARIABLES
    ml_service,         \* module global, line 19: "None" or "MLService"
    models_loaded,      \* the models_loaded field of the MLService object
    trading_assistant,  \* module global, line 20: "None" or "TradingAssistantService"
    lifespan_pc,        \* where the lifespan coroutine is
    started,            \* history: the startup steps begun, in order
    completed,          \* history: the startup steps that returned, in order
    startup_error,      \* history: <<>> or <<what raised during startup>>
    req                 \* the requests: each one's handler task, with the
                        \* history of its calls (calls), of the values they
                        \* returned (rets), of the exception raised in the
                        \* handler (raised) and, for /health, of the startup
                        \* state it ran in (at)

vars == <<ml_service, models_loaded, trading_assistant, lifespan_pc,
          started, completed, startup_error, req>>
globals == <<ml_service, trading_assistant>>
lifespanVars == <<ml_service, models_loaded, trading_assistant, lifespan_pc,
                  started, completed, startup_error>>

None == "None"
PyNone == [py_none |-> TRUE]
IsDict(v) == "py_none" \notin DOMAIN v
NoCredentials == 0

-----------------------------------------------------------------------------
(* Python values the handlers build *)

Exc(cls, arg) == [cls |-> cls, arg |-> arg]

\* str(e): a KeyError shows the repr of its key, the others their message.
Str(e) == IF e.cls = "KeyError" THEN "'" \o e.arg \o "'" ELSE e.arg

\* Reading attribute `name` of None.
NoneAttributeError(name) ==
    Exc("AttributeError", "'NoneType' object has no attribute '" \o name \o "'")

NotSubscriptable == Exc("TypeError", "'NoneType' object is not subscriptable")

StatusOK == 200
StatusServerError == 500

NoResponse == [status |-> 0]
JSONResponse(body) == [status |-> StatusOK, body |-> body]
HTTPException(status_code, detail) == [status |-> status_code, detail |-> detail]
\* An exception no handler caught: the framework answers a bare 500.
Unhandled(e) == [status |-> StatusServerError, text |-> "Internal Server Error"]

-----------------------------------------------------------------------------
(* lifespan, lines 22-42 *)

StartupSteps == <<"init_db", "load_models", "initialize">>

\* Faulty variant of OnStartupError: the exception is swallowed and startup
\* goes on to the next step.
OnStartupErrorSwallowed(step) ==
    CASE step = "init_db" -> "load_models"
      [] step = "load_models" -> "initialize"
      [] OTHER -> "serving"
\* An exception in a startup step leaves the coroutine: nothing catches it.
OnStartupError(step) == "failed"

\* MLService(): the object starts with no model loaded.
MLServiceInit == FALSE
\* load_models() returned: the models are loaded.
LoadModelsDone == TRUE

LifespanStart ==
    /\ lifespan_pc = "not_started"
    /\ lifespan_pc' = "init_db"
    /\ started' = <<"init_db">>
    /\ UNCHANGED <<ml_service, models_loaded, trading_assistant, completed,
                   startup_error, req>>

\* await init_db() returns; ml_service = MLService(); load_models() is awaited.
InitDbReturns ==
    /\ lifespan_pc = "init_db"
    /\ completed' = Append(completed, "init_db")
    /\ \/ /\ ml_service' = "MLService"
          /\ models_loaded' = MLServiceInit
          /\ lifespan_pc' = "load_models"
          /\ started' = Append(started, "load_models")
          /\ UNCHANGED startup_error
       \/ /\ startup_error' = <<"MLService">>
          /\ lifespan_pc' = OnStartupError("load_models")
          /\ UNCHANGED <<ml_service, models_loaded, started>>
    /\ UNCHANGED <<trading_assistant, req>>

InitDbRaises ==
    /\ lifespan_pc = "init_db"
    /\ startup_error' = <<"init_db">>
    /\ lifespan_pc' = OnStartupError("init_db")
    /\ UNCHANGED <<ml_service, models_loaded, trading_assistant, started,
                   completed, req>>

\* load_models() returns; trading_assistant = TradingAssistantService();
\* initialize() is awaited.
LoadModelsReturns ==
    /\ lifespan_pc = "load_models"
    /\ models_loaded' = LoadModelsDone
    /\ completed' = Append(completed, "load_models")
    /\ \/ /\ trading_assistant' = "TradingAssistantService"
          /\ lifespan_pc' = "initialize"
          /\ started' = Append(started, "initialize")
          /\ UNCHANGED startup_error
       \/ /\ startup_error' = <<"TradingAssistantService">>
          /\ lifespan_pc' = OnStartupError("initialize")
          /\ UNCHANGED <<trading_assistant, started>>
    /\ UNCHANGED <<ml_service, req>>

LoadModelsRaises ==
    /\ lifespan_pc = "load_models"
    /\ startup_error' = <<"load_models">>
    /\ lifespan_pc' = OnStartupError("load_models")
    /\ UNCHANGED <<ml_service, models_loaded, trading_assistant, started,
                   completed, req>>

\* initialize() returns: the lifespan reaches its yield.
InitializeReturns ==
    /\ lifespan_pc = "initialize"
    /\ completed' = Append(completed, "initialize")
    /\ lifespan_pc' = "serving"
    /\ UNCHANGED <<ml_service, models_loaded, trading_assistant, started,
                   startup_error, req>>

InitializeRaises ==
    /\ lifespan_pc = "initialize"
    /\ startup_error' = <<"initialize">>
    /\ lifespan_pc' = OnStartupError("initialize")
    /\ UNCHANGED <<ml_service, models_loaded, trading_assistant, started,
                   completed, req>>

\* The code after the yield: it only logs.
Shutdown ==
    /\ lifespan_pc = "serving"
    /\ lifespan_pc' = "shutdown"
    /\ UNCHANGED <<ml_service, models_loaded, trading_assistant, started,
                   completed, startup_error, req>>

Lifespan ==
    \/ LifespanStart
    \/ InitDbReturns
    \/ InitDbRaises
    \/ LoadModelsReturns
    \/ LoadModelsRaises
    \/ InitializeReturns
    \/ InitializeRaises
    \/ Shutdown

-----------------------------------------------------------------------------
(* Requests and the dependencies of the protected routes, lines 60-65 *)

NoParams == [none |-> TRUE]

NewRequest ==
    [pc |-> "new", ep |-> "none", cred |-> NoCredentials, query |-> NoParams,
     args |-> NoParams, current_user |-> "unset", calls |-> <<>>,
     rets |-> <<>>, raised |-> <<>>, response |-> NoResponse,
     at |-> [completed |-> <<>>, ml_service |-> None]]

\* The routes declared with Depends(get_current_user): lines 85, 101, 122.
Protected == {"chat", "price", "optimize"}

\* The status HTTPBearer answers a request without bearer credentials with
\* (403, or 401 in later releases of the framework).
NotAuthenticated == {401, 403}

\* Faulty variant of security: HTTPBearer(auto_error=False) lets a request
\* without credentials through.
securityNoAutoError(cred) == [ok |-> TRUE, credentials |-> cred]
\* security = HTTPBearer(): with auto_error left on, a request without an
\* Authorization: Bearer header (none, or one of another scheme: NoCredentials)
\* is refused; any other one passes with its token.
security(cred) ==
    IF cred = NoCredentials
    THEN [ok |-> FALSE, credentials |-> cred]
    ELSE [ok |-> TRUE, credentials |-> cred]

\* Faulty variant of get_current_user: only token 1 is accepted.
get_current_userVerifying(credentials) ==
    IF credentials = 1 THEN [ok |-> TRUE, value |-> None]
    ELSE [ok |-> FALSE, value |-> None]
\* get_current_user: its body is `pass`; it returns None for every credential.
get_current_user(credentials) == [ok |-> TRUE, value |-> None]

\* The dependencies of a protected route, resolved before the handler body.
Depends(cred) ==
    LET c == security(cred)
    IN  IF c.ok THEN get_current_user(c.credentials)
        ELSE [ok |-> FALSE, value |-> None]

Arrived(in) ==
    [NewRequest EXCEPT !.ep = in.ep, !.cred = in.cred, !.query = in.query]

\* Faulty variant of ExceptHandler: the exception's message is dropped.
ExceptHandlerGeneric(e) == HTTPException(StatusServerError, "Internal Server Error")
\* except Exception as e: raise HTTPException(status_code=500, detail=str(e))
ExceptHandler(e) == HTTPException(StatusServerError, Str(e))

\* How a handler's run ends: with a returned body, or in its except clause.
Returned(rets, body) ==
    [rets |-> rets, raised |-> <<>>, response |-> JSONResponse(body)]
Caught(rets, e) ==
    [rets |-> rets, raised |-> <<e>>, response |-> ExceptHandler(e)]

Finish(q, end, calls) ==
    [q EXCEPT !.pc = "done", !.rets = end.rets, !.raised = end.raised,
              !.response = end.response, !.calls = calls]

\* The outcome of a call into a service: a value or an exception.
Ok(v) == [ok |-> TRUE, value |-> v]
Err(e) == [ok |-> FALSE, exc |-> e]

\* A request to a protected route whose dependencies refuse it: the handler
\* body never runs.
Reject(r, in) ==
    /\ req[r].pc = "new"
    /\ in.ep \in Protected
    /\ ~Depends(in.cred).ok
    /\ \E s \in NotAuthenticated :
         req' = [req EXCEPT ![r] =
                   [Arrived(in) EXCEPT !.pc = "done",
                       !.response = HTTPException(s, "Not authenticated")]]
    /\ UNCHANGED lifespanVars

\* Whether the handler body of `in` runs, and the request as it enters it.
Admitted(in) == in.ep \in Protected => Depends(in.cred).ok
Entered(in) ==
    IF in.ep \in Protected
    THEN [Arrived(in) EXCEPT !.current_user = Depends(in.cred).value]
    ELSE Arrived(in)

-----------------------------------------------------------------------------
(* GET /health, lines 72-79 *)

\* Faulty variant of ModelsLoaded: the truth value of ml_service itself.
ModelsLoadedTruthy == ml_service # None
\* ml_service.models_loaded if ml_service else False
ModelsLoaded == IF ml_service # None THEN models_loaded ELSE FALSE

HealthBody ==
    [status |-> "healthy", service |-> "ai-service", version |-> "1.0.0",
     models_loaded |-> ModelsLoaded]

\* The handler has no await and no try: it answers in one step, and an
\* exception of the attribute read leaves it uncaught.
health_check(r, in, errors) ==
    /\ req[r].pc = "new"
    /\ in.ep = "health"
    /\ LET q == [Entered(in) EXCEPT
                    !.at = [completed |-> completed, ml_service |-> ml_service]]
       IN  \/ req' = [req EXCEPT ![r] = Finish(q, Returned(<<>>, HealthBody), <<>>)]
           \/ /\ ml_service # None
              /\ \E e \in errors :
                   req' = [req EXCEPT ![r] =
                             [q EXCEPT !.pc = "done", !.raised = <<e>>,
                                       !.response = Unhandled(e)]]
    /\ UNCHANGED lifespanVars

-----------------------------------------------------------------------------
(* POST /api/v1/trading-assistant/chat, lines 81-94 *)

Call(obj, method, args) == [obj |-> obj, method |-> method, args |-> args]

\* Faulty variant of ChatCalls: process_message is invoked twice.
ChatCallsTwice(a) ==
    << Call("trading_assistant", "process_message", <<a.message, a.user_id>>),
       Call("trading_assistant", "process_message", <<a.message, a.user_id>>) >>
\* The service call of the handler, line 91.
ChatCalls(a) ==
    << Call("trading_assistant", "process_message", <<a.message, a.user_id>>) >>

\* The handler up to its await.
chat_with_assistant(r, in) ==
    /\ req[r].pc = "new"
    /\ in.ep = "chat"
    /\ Admitted(in)
    /\ LET q == [Entered(in) EXCEPT !.args = in.query]
       IN  req' = [req EXCEPT ![r] =
                IF trading_assistant = None
                THEN Finish(q, Caught(<<>>, NoneAttributeError("process_message")), <<>>)
                ELSE [q EXCEPT !.pc = "awaiting", !.calls = ChatCalls(q.args)]]
    /\ UNCHANGED lifespanVars

\* process_message returns or raises: the handler runs to its end.
chat_resume(r, out) ==
    /\ req[r].pc = "awaiting"
    /\ req[r].ep = "chat"
    /\ req' = [req EXCEPT ![r] =
                 Finish(@, IF out.ok
                           THEN Returned(<<out.value>>, [response |-> out.value])
                           ELSE Caught(<<>>, out.exc),
                        @.calls)]
    /\ UNCHANGED lifespanVars

-----------------------------------------------------------------------------
(* POST /api/v1/predictions/price, lines 96-116 *)

DefaultPeriods == 24

\* Faulty variant of BindPrice: other defaults in the signature.
BindPriceOtherDefaults(query) ==
    [symbol |-> query.symbol,
     timeframe |-> IF query.timeframe = <<>> THEN "1d" ELSE query.timeframe[1],
     periods |-> IF query.periods = <<>> THEN 1 ELSE query.periods[1]]
\* The handler's parameters: an omitted timeframe or periods takes the default
\* of the signature (lines 99-100).
BindPrice(query) ==
    [symbol |-> query.symbol,
     timeframe |-> IF query.timeframe = <<>> THEN "1h" ELSE query.timeframe[1],
     periods |-> IF query.periods = <<>> THEN DefaultPeriods ELSE query.periods[1]]

PredictCall(a) ==
    Call("ml_service", "predict_price", <<a.symbol, a.timeframe, a.periods>>)
ModelVersionCall == Call("ml_service", "get_model_version", <<"price_prediction">>)

\* Faulty variant of Confidence: another default than 0.0.
ConfidenceNoDefault(predictions) ==
    IF "confidence" \in DOMAIN predictions THEN predictions.confidence ELSE 100
\* predictions.get("confidence", 0.0)
Confidence(predictions) ==
    IF "confidence" \in DOMAIN predictions THEN predictions.confidence ELSE 0

\* Faulty variant of CallsAfterPredict: get_model_version is called whatever
\* predict_price did.
CallsAfterPredictAlways(out) == <<ModelVersionCall>>
\* The service calls the handler makes after predict_price came back with
\* `out`: get_model_version, reached only when predict_price returned and
\* predictions.get did not raise.
CallsAfterPredict(out) ==
    IF out.ok /\ IsDict(out.value) THEN <<ModelVersionCall>> ELSE <<>>

\* Faulty variant of Locals: the parameters are kept in one place shared by
\* the requests of an endpoint.
LocalsShared(r) ==
    IF req[1].pc # "new" /\ req[1].ep = req[r].ep THEN req[1].args ELSE req[r].args
\* The locals of request r's handler task.
Locals(r) == req[r].args

\* The body of the try after the await, lines 108-114, in evaluation order.
PriceEnd(a, out, vout) ==
    IF ~out.ok THEN Caught(<<>>, out.exc)
    ELSE IF ~IsDict(out.value)
         THEN Caught(<<out.value>>, NoneAttributeError("get"))
    ELSE IF ~vout.ok THEN Caught(<<out.value>>, vout.exc)
    ELSE Returned(<<out.value, vout.value>>,
                  [symbol |-> a.symbol,
                   timeframe |-> a.timeframe,
                   predictions |-> out.value,
                   confidence |-> Confidence(out.value),
                   model_version |-> vout.value])

\* The handler up to its await.
predict_price(r, in) ==
    /\ req[r].pc = "new"
    /\ in.ep = "price"
    /\ Admitted(in)
    /\ LET q == [Entered(in) EXCEPT !.args = BindPrice(in.query)]
       IN  req' = [req EXCEPT ![r] =
                IF ml_service = None
                THEN Finish(q, Caught(<<>>, NoneAttributeError("predict_price")), <<>>)
                ELSE [q EXCEPT !.pc = "awaiting", !.calls = <<PredictCall(q.args)>>]]
    /\ UNCHANGED lifespanVars

\* predict_price returns or raises: the handler runs to its end, calling
\* get_model_version (not awaited) on the way.
predict_price_resume(r, out, vout) ==
    /\ req[r].pc = "awaiting"
    /\ req[r].ep = "price"
    /\ req' = [req EXCEPT ![r] =
                 Finish(@, PriceEnd(Locals(r), out, vout),
                        @.calls \o CallsAfterPredict(out))]
    /\ UNCHANGED lifespanVars

-----------------------------------------------------------------------------
(* POST /api/v1/ai/portfolio-optimization, lines 118-140 *)

OptimizeCall(a) ==
    Call("ml_service", "optimize_portfolio", <<a.portfolio_data, a.risk_tolerance>>)

\* The keys lines 133-137 read, in order.
OptimizationKeys ==
    <<"weights", "expected_return", "risk", "sharpe_ratio", "recommendations">>

MissingKeys(o) == {i \in 1..Len(OptimizationKeys) : OptimizationKeys[i] \notin DOMAIN o}
FirstMissing(o) ==
    OptimizationKeys[CHOOSE i \in MissingKeys(o) : \A j \in MissingKeys(o) : i <= j]

\* The body of the try after the await, lines 132-138.
OptimizeEnd(out) ==
    IF ~out.ok THEN Caught(<<>>, out.exc)
    ELSE IF ~IsDict(out.value) THEN Caught(<<out.value>>, NotSubscriptable)
    ELSE IF MissingKeys(out.value) # {}
         THEN Caught(<<out.value>>, Exc("KeyError", FirstMissing(out.value)))
    ELSE Returned(<<out.value>>,
                  [optimized_weights |-> out.value.weights,
                   expected_return |-> out.value.expected_return,
                   risk |-> out.value.risk,
                   sharpe_ratio |-> out.value.sharpe_ratio,
                   recommendations |-> out.value.recommendations])

\* The handler up to its await.
optimize_portfolio(r, in) ==
    /\ req[r].pc = "new"
    /\ in.ep = "optimize"
    /\ Admitted(in)
    /\ LET q == [Entered(in) EXCEPT !.args = in.query]
       IN  req' = [req EXCEPT ![r] =
                IF ml_service = None
                THEN Finish(q, Caught(<<>>, NoneAttributeError("optimize_portfolio")), <<>>)
                ELSE [q EXCEPT !.pc = "awaiting", !.calls = <<OptimizeCall(q.args)>>]]
    /\ UNCHANGED lifespanVars

optimize_portfolio_resume(r, out) ==
    /\ req[r].pc = "awaiting"
    /\ req[r].ep = "optimize"
    /\ req' = [req EXCEPT ![r] = Finish(@, OptimizeEnd(out), @.calls)]
    /\ UNCHANGED lifespanVars

-----------------------------------------------------------------------------
(* What the clients send and what the services answer *)

Timeframes == {"1h", "1d"}
PeriodsSent == {12, DefaultPeriods}
Option(S) == {<<>>} \cup {<<x>> : x \in S}

\* Every request a client can send, with or without bearer credentials.
AllRequests ==
    [ep : {"health"}, cred : {NoCredentials} \cup Tokens, query : {NoParams}]
    \cup [ep : {"chat"}, cred : {NoCredentials} \cup Tokens,
          query : [message : Vals, user_id : Vals]]
    \cup [ep : {"price"}, cred : {NoCredentials} \cup Tokens,
          query : [symbol : Vals, timeframe : Option(Timeframes),
                   periods : Option(PeriodsSent)]]
    \cup [ep : {"optimize"}, cred : {NoCredentials} \cup Tokens,
          query : [portfolio_data : Vals, risk_tolerance : {10, 50}]]

\* The requests of client r in the concurrent runs: each client sends its own
\* values, so that a value of one request showing up in another is visible.
OwnRequests(r) ==
    { [ep |-> "health", cred |-> NoCredentials, query |-> NoParams],
      [ep |-> "chat", cred |-> 1, query |-> [message |-> r, user_id |-> r + 10]],
      [ep |-> "price", cred |-> 1,
       query |-> [symbol |-> r, timeframe |-> <<>>, periods |-> <<r>>]],
      [ep |-> "optimize", cred |-> 1,
       query |-> [portfolio_data |-> r, risk_tolerance |-> 10 * r]],
      [ep |-> "optimize", cred |-> NoCredentials,
       query |-> [portfolio_data |-> r, risk_tolerance |-> 10 * r]] }

Errors == {Exc("RuntimeError", "model unavailable"), Exc("KeyError", "AAPL")}

Optimization(w) ==
    [weights |-> w, expected_return |-> 8, risk |-> 12, sharpe_ratio |-> 66,
     recommendations |-> w + 100]

\* The answers of the collaborators, whose code is not part of this file:
\* any value of the expected shape, a value of another shape, or an exception.
AllOutcomes ==
    [attr |-> Errors,
     chat |-> {Ok("buy"), Ok("hold")} \cup {Err(e) : e \in Errors},
     predict |-> {Ok([points |-> 1, confidence |-> 75]),
                  Ok([points |-> 2, confidence |-> 0]),
                  Ok([points |-> 3]),
                  Ok(PyNone)} \cup {Err(e) : e \in Errors},
     version |-> {Ok("v1"), Ok("v2")} \cup {Err(e) : e \in Errors},
     optimize |-> {Ok(Optimization(1)), Ok(Optimization(2)),
                   Ok([weights |-> 1, expected_return |-> 8]),
                   Ok([expected_return |-> 8, risk |-> 12]),
                   Ok(PyNone)} \cup {Err(e) : e \in Errors}]

\* The same request sent with each credential, to compare the answers.
PairRequests ==
    { in \in AllRequests :
        \/ in.ep = "health"
        \/ in.ep = "chat" /\ in.query = [message |-> 1, user_id |-> 2]
        \/ in.ep = "price" /\ in.query.timeframe = <<>> /\ in.query.periods = <<>>
                           /\ in.query.symbol = 1
        \/ in.ep = "optimize" /\ in.query = [portfolio_data |-> 1, risk_tolerance |-> 10] }

FewOutcomes ==
    [attr |-> {Exc("RuntimeError", "model unavailable")},
     chat |-> {Ok("buy"), Ok("hold"), Err(Exc("RuntimeError", "model unavailable"))},
     predict |-> {Ok([points |-> 1, confidence |-> 75]), Ok([points |-> 3]),
                  Err(Exc("RuntimeError", "model unavailable"))},
     version |-> {Ok("v1")},
     optimize |-> {Ok(Optimization(1)), Ok(Optimization(2)),
                   Err(Exc("RuntimeError", "model unavailable"))}]

-----------------------------------------------------------------------------
(* The specifications *)

Init ==
    /\ ml_service = None
    /\ models_loaded = FALSE
    /\ trading_assistant = None
    /\ lifespan_pc = "not_started"
    /\ started = <<>>
    /\ completed = <<>>
    /\ startup_error = <<>>
    /\ req = [r \in Requests |-> NewRequest]

\* Request r arrives and its handler runs to its first await, or to its end.
Handle(r, in, O) ==
    \/ Reject(r, in)
    \/ health_check(r, in, O.attr)
    \/ chat_with_assistant(r, in)
    \/ predict_price(r, in)
    \/ optimize_portfolio(r, in)

\* The awaited service call of request r comes back.
Resume(r, O) ==
    \/ \E out \in O.chat : chat_resume(r, out)
    \/ \E out \in O.predict, vout \in O.version : predict_price_resume(r, out, vout)
    \/ \E out \in O.optimize : optimize_portfolio_resume(r, out)

\* One request at a time, over everything a client can send and a service
\* can answer.
Next ==
    \/ Lifespan
    \/ \E in \in AllRequests : Handle(1, in, AllOutcomes)
    \/ Resume(1, AllOutcomes)

Spec == Init /\ [][Next]_vars

\* NumReq requests interleaved on the event loop.
NextConc ==
    \/ Lifespan
    \/ \E r \in Requests : \E in \in OwnRequests(r) : Handle(r, in, FewOutcomes)
    \/ \E r \in Requests : Resume(r, FewOutcomes)

SpecConc == Init /\ [][NextConc]_vars

\* Two requests that differ at most in their credentials.
NextPair ==
    \/ Lifespan
    \/ \E r \in {1, 2} : \E in \in PairRequests : Handle(r, in, FewOutcomes)
    \/ \E r \in {1, 2} : Resume(r, FewOutcomes)

SpecPair == Init /\ [][NextPair]_vars

-----------------------------------------------------------------------------
(* The claims *)

PostEndpoints == {"chat", "price", "optimize"}
Answered(r) == req[r].pc = "done"
Succeeded(r) == req[r].pc = "done" /\ req[r].response.status = 200
\* A service method raised in request r: its last call returned no value.
ServiceRaised(r) == req[r].raised # <<>> /\ Len(req[r].calls) > Len(req[r].rets)
Contains(seq, x) == \E i \in 1..Len(seq) : seq[i] = x
IsPrefix(s, t) == Len(s) <= Len(t) /\ \A i \in 1..Len(s) : s[i] = t[i]

\* C1 (as stated): on every one of the four endpoints, an exception raised
\* while the handler reads from or calls its service object ends the request
\* with status 500 and detail = str(exception).
C1_EveryEndpointAnswers500WithDetail ==
    \A r \in Requests :
        req[r].raised # <<>> =>
            /\ req[r].response.status = 500
            /\ "detail" \in DOMAIN req[r].response
            /\ req[r].response.detail = Str(req[r].raised[1])

\* C1 (amended): on the three POST endpoints an exception raised in the
\* handler ends the request with status 500 and detail = str(exception); in
\* GET /health nothing catches it, and the answer is the framework's bare 500
\* without the exception's message.
C1_PostEndpointsAnswer500WithDetail ==
    \A r \in Requests :
        req[r].raised # <<>> =>
            /\ Answered(r)
            /\ req[r].ep \in PostEndpoints =>
                   req[r].response = [status |-> 500, detail |-> Str(req[r].raised[1])]
            /\ req[r].ep \notin PostEndpoints =>
                   /\ req[r].ep = "health"
                   /\ req[r].response.status = 500
                   /\ "detail" \notin DOMAIN req[r].response

C1_Witness ==
    \E r \in Requests :
        /\ req[r].ep = "optimize"
        /\ req[r].raised = <<Exc("KeyError", "risk")>>
        /\ req[r].response = [status |-> 500, detail |-> "'risk'"]

C3_DefaultsApplied ==
    \A r \in Requests :
        (req[r].ep = "price" /\ req[r].calls # <<>>) =>
            /\ req[r].calls[1].args =
                  << req[r].query.symbol,
                     IF req[r].query.timeframe = <<>> THEN "1h"
                     ELSE req[r].query.timeframe[1],
                     IF req[r].query.periods = <<>> THEN 24
                     ELSE req[r].query.periods[1] >>
            /\ Succeeded(r) => req[r].response.body.timeframe = req[r].calls[1].args[2]

C3_Witness ==
    \E r \in Requests :
        /\ req[r].ep = "price" /\ Succeeded(r)
        /\ req[r].query.timeframe = <<>> /\ req[r].query.periods = <<>>
        /\ req[r].calls[1].args = <<req[r].query.symbol, "1h", 24>>

\* C4: no bearer token is refused by get_current_user, which returns None
\* for each, and two requests to one protected endpoint that differ only in
\* their token, and that the services answer alike, make the same service
\* calls and get the same response.
C4_TokenIgnored ==
    /\ \A r \in Requests :
          (req[r].ep \in PostEndpoints /\ req[r].cred # NoCredentials) =>
              /\ req[r].current_user = None
              /\ req[r].response.status \notin NotAuthenticated
    /\ \A r1, r2 \in Requests :
          (/\ Answered(r1) /\ Answered(r2)
           /\ req[r1].ep \in PostEndpoints /\ req[r2].ep = req[r1].ep
           /\ req[r1].cred # NoCredentials /\ req[r2].cred # NoCredentials
           /\ req[r1].query = req[r2].query
           /\ req[r1].rets = req[r2].rets /\ req[r1].raised = req[r2].raised) =>
              /\ req[r1].calls = req[r2].calls
              /\ req[r1].response = req[r2].response

C4_Witness ==
    /\ req[1].ep = "price" /\ req[2].ep = "price"
    /\ Succeeded(1) /\ Succeeded(2)
    /\ req[1].cred # NoCredentials /\ req[2].cred # NoCredentials
    /\ req[1].cred # req[2].cred
    /\ req[1].rets = req[2].rets
    /\ req[1].response = req[2].response

\* C5: a request to a POST endpoint without bearer credentials is refused
\* before the handler body runs, so no service method is invoked for it;
\* GET /health answers without credentials.
C5_BearerRequired ==
    \A r \in Requests :
        (req[r].pc # "new" /\ req[r].cred = NoCredentials) =>
            /\ req[r].ep \in PostEndpoints =>
                  /\ Answered(r)
                  /\ req[r].response.status \in NotAuthenticated
                  /\ req[r].calls = <<>>
                  /\ req[r].args = NoParams
                  /\ req[r].raised = <<>>
            /\ req[r].ep = "health" =>
                  /\ Answered(r)
                  /\ req[r].response.status \notin NotAuthenticated

C5_Witness ==
    \E r \in Requests :
        /\ req[r].ep = "chat" /\ req[r].cred = NoCredentials /\ Answered(r)
        /\ trading_assistant # None
        /\ req[r].calls = <<>>

\* C6 (as stated): a request of a POST endpoint that succeeds has invoked
\* exactly one service method.
C6_ExactlyOneCall ==
    \A r \in Requests :
        (req[r].ep \in PostEndpoints /\ Succeeded(r)) => Len(req[r].calls) = 1

\* C6 (amended): a successful chat or portfolio-optimization request has
\* invoked exactly one service method; a successful price prediction has
\* invoked exactly two, predict_price and then get_model_version.
C6_CallsPerRequest ==
    \A r \in Requests :
        (req[r].ep \in PostEndpoints /\ Succeeded(r)) =>
            /\ req[r].ep = "chat" =>
                  /\ Len(req[r].calls) = 1
                  /\ req[r].calls[1].method = "process_message"
            /\ req[r].ep = "optimize" =>
                  /\ Len(req[r].calls) = 1
                  /\ req[r].calls[1].method = "optimize_portfolio"
            /\ req[r].ep = "price" =>
                  /\ Len(req[r].calls) = 2
                  /\ req[r].calls[1].method = "predict_price"
                  /\ req[r].calls[2].method = "get_model_version"

C6_Witness ==
    \E r \in Requests :
        /\ req[r].ep = "price" /\ Succeeded(r)
        /\ Len(req[r].calls) = 2

\* C7: when a service method raises, it was the request's last invocation:
\* no method is invoked twice, nothing is invoked after it (get_model_version
\* is not called after predict_price raised), and the request has ended with
\* the 500 response.
C7_NoRetry ==
    \A r \in Requests :
        ServiceRaised(r) =>
            /\ Answered(r)
            /\ req[r].response.status = 500
            /\ Len(req[r].calls) = Len(req[r].rets) + 1
            /\ \A i, j \in 1..Len(req[r].calls) :
                  req[r].calls[i].method = req[r].calls[j].method => i = j
            /\ (req[r].ep = "price" /\ req[r].rets = <<>>) =>
                  ~\E i \in 1..Len(req[r].calls) :
                      req[r].calls[i].method = "get_model_version"

C7_Witness ==
    \E r \in Requests :
        /\ req[r].ep = "price" /\ ServiceRaised(r) /\ req[r].rets = <<>>
        /\ Len(req[r].calls) = 1
        /\ req[r].response.status = 500

\* C8: startup begins init_db, load_models and initialize in this order, each
\* after the one before has returned; the serving state is reached only with
\* all three returned; after a step raised no later step begins and the
\* serving state is not reached, and trading_assistant is None when init_db
\* or load_models raised.
C8_StartupInOrder ==
    /\ IsPrefix(started, StartupSteps)
    /\ IsPrefix(completed, started)
    /\ Len(started) <= Len(completed) + 1
    /\ lifespan_pc \in {"serving", "shutdown"} =>
          completed = StartupSteps /\ startup_error = <<>>
    /\ startup_error # <<>> =>
          /\ lifespan_pc = "failed"
          /\ startup_error[1] \in {"init_db", "load_models", "initialize"} =>
                /\ started[Len(started)] = startup_error[1]
                /\ Len(completed) = Len(started) - 1
          /\ startup_error[1] \in {"init_db", "load_models"} =>
                trading_assistant = None

C8_Witness ==
    /\ startup_error = <<"load_models">>
    /\ lifespan_pc = "failed"
    /\ ml_service # None
    /\ trading_assistant = None

\* C9: a successful price response echoes the handler's symbol and timeframe,
\* carries the object predict_price returned as predictions, its "confidence"
\* entry, or 0.0 when it has none, as confidence, and the result of
\* get_model_version("price_prediction") as model_version.
C9_PriceResponse ==
    \A r \in Requests :
        (req[r].ep = "price" /\ Succeeded(r)) =>
            /\ req[r].response.body.symbol = req[r].query.symbol
            /\ req[r].response.body.timeframe = req[r].calls[1].args[2]
            /\ req[r].query.timeframe # <<>> =>
                  req[r].response.body.timeframe = req[r].query.timeframe[1]
            /\ req[r].response.body.predictions = req[r].rets[1]
            /\ req[r].response.body.confidence =
                  IF "confidence" \in DOMAIN req[r].rets[1]
                  THEN req[r].rets[1].confidence ELSE 0
            /\ req[r].calls[2].args = <<"price_prediction">>
            /\ req[r].response.body.model_version = req[r].rets[2]

C9_Witness ==
    \E r \in Requests :
        /\ req[r].ep = "price" /\ Succeeded(r)
        /\ "confidence" \notin DOMAIN req[r].rets[1]
        /\ req[r].response.body.confidence = 0

\* The service calls request r must have made so far, from its own query.
OwnCalls(r) ==
    LET q == req[r].query
    IN  CASE req[r].ep = "chat" ->
               <<Call("trading_assistant", "process_message", <<q.message, q.user_id>>)>>
          [] req[r].ep = "optimize" ->
               <<Call("ml_service", "optimize_portfolio",
                      <<q.portfolio_data, q.risk_tolerance>>)>>
          [] req[r].ep = "price" ->
               <<Call("ml_service", "predict_price",
                      <<q.symbol,
                        IF q.timeframe = <<>> THEN "1h" ELSE q.timeframe[1],
                        IF q.periods = <<>> THEN 24 ELSE q.periods[1]>>)>>
          [] OTHER -> <<>>

\* The response of a successful request r, from its own query and from the
\* values returned to its own calls.
OwnResponse(r) ==
    CASE req[r].ep = "chat" -> [response |-> req[r].rets[1]]
      [] req[r].ep = "optimize" ->
           [optimized_weights |-> req[r].rets[1].weights,
            expected_return |-> req[r].rets[1].expected_return,
            risk |-> req[r].rets[1].risk,
            sharpe_ratio |-> req[r].rets[1].sharpe_ratio,
            recommendations |-> req[r].rets[1].recommendations]
      [] req[r].ep = "price" ->
           [symbol |-> req[r].query.symbol,
            timeframe |-> IF req[r].query.timeframe = <<>> THEN "1h"
                          ELSE req[r].query.timeframe[1],
            predictions |-> req[r].rets[1],
            confidence |-> IF "confidence" \in DOMAIN req[r].rets[1]
                           THEN req[r].rets[1].confidence ELSE 0,
            model_version |-> req[r].rets[2]]

C10_OwnParameters ==
    \A r \in Requests :
        /\ (req[r].ep \in PostEndpoints /\ req[r].calls # <<>>) =>
              req[r].calls[1] = OwnCalls(r)[1]
        /\ (req[r].ep \in PostEndpoints /\ Succeeded(r)) =>
              req[r].response.body = OwnResponse(r)

\* C10: under every interleaving of the requests at their awaits, no step of
\* a handler writes ml_service or trading_assistant, each service call gets
\* the parameters of its own request, and each response is built from the
\* request's own parameters and the values returned to its own calls.
C10_NoInterference ==
    /\ [][(req' # req) => UNCHANGED globals]_vars
    /\ []C10_OwnParameters

C10_Witness ==
    /\ req[1].ep = "price" /\ req[1].pc = "awaiting"
    /\ req[2].ep = "price" /\ Succeeded(2)
    /\ req[2].response.body.symbol = 2
    /\ req[1].query.symbol = 1

====
